---- MODULE Spec2Model ----
(***************************************************************************)
(* Model of the Raycast extension "generate-command"                       *)
(* (src/src/generate-command.tsx): the persisted prompt history kept in    *)
(* LocalStorage under HISTORY_KEY, and the generateCommand pipeline that   *)
(* gathers context, calls the model, records the prompt and pastes the     *)
(* command.                                                                *)
(*                                                                         *)
(* A JavaScript string is a sequence of one-character strings, so that     *)
(* trim, JSON.stringify and JSON.parse are computed and not assumed.       *)
(***************************************************************************)
EXTENDS Integers, Sequences, FiniteSets, TLC

VARIABLES
    store,      \* LocalStorage item HISTORY_KEY: [present, text]
    history,    \* React state `history` (the list the UI shows)
    isLoading,  \* React state `isLoading`
    pcLoad,     \* the mount effect getHistory().then(setHistory)
    pcClear,    \* the "Clear History" handler
    pc,         \* pc[r]: where run r of generateCommand is suspended
    prompt,     \* prompt[r]: the argument of run r
    command,    \* command[r]: the trimmed text of the model's first block
    updated,    \* updated[r]: the list addToHistory of run r writes and returns
    toast,      \* toast[r]: title of the toast or HUD run r is showing
    error,      \* error[r]: what threw the error the catch block of run r reports
    wrote,      \* wrote[r]: history variable, run r's setItem has taken effect
    os,         \* what the host answers to getSelectedText and to each AppleScript
    probe,      \* probe[r]: the queries gatherContext of run r issued, in order
    context,    \* context[r]: the Context gatherContext of run r returned
    fullPrompt  \* fullPrompt[r]: the user turn run r sends to messages.create

vars == <<store, history, isLoading, pcLoad, pcClear, pc, prompt, command,
          updated, toast, error, wrote, os, probe, context, fullPrompt>>

-----------------------------------------------------------------------------
(* Bounds and program constants *)

MAX_HISTORY == 20

\* concurrent invocations of generateCommand the model follows
MaxRuns == 2

\* distinct never-used-before requests the history-store specification feeds in
MaxFresh == 21

Runs == 1..MaxRuns

-----------------------------------------------------------------------------
(* Strings *)

Whitespace == {" ", "\t", "\n"}

RECURSIVE TrimStart(_)
TrimStart(s) ==
    IF s = <<>> THEN <<>>
    ELSE IF Head(s) \in Whitespace THEN TrimStart(Tail(s))
    ELSE s

RECURSIVE TrimEnd(_)
TrimEnd(s) ==
    IF s = <<>> THEN <<>>
    ELSE IF s[Len(s)] \in Whitespace THEN TrimEnd(SubSeq(s, 1, Len(s) - 1))
    ELSE s

\* a trim that strips nothing
TrimNothing(s) == s

\* String.prototype.trim
Trim(s) == TrimEnd(TrimStart(s))

\* JavaScript truthiness of a string: the empty string is falsy
Truthy(s) == s # <<>>

-----------------------------------------------------------------------------
(* JSON.stringify and JSON.parse on arrays of strings *)

EscapeChar(c) ==
    IF c = "\"" THEN <<"\\", "\"">>
    ELSE IF c = "\\" THEN <<"\\", "\\">>
    ELSE IF c = "\n" THEN <<"\\", "n">>
    ELSE IF c = "\t" THEN <<"\\", "t">>
    ELSE <<c>>

RECURSIVE Escape(_)
Escape(s) == IF s = <<>> THEN <<>> ELSE EscapeChar(Head(s)) \o Escape(Tail(s))

Quote(s) == <<"\"">> \o Escape(s) \o <<"\"">>

RECURSIVE Elements(_)
Elements(arr) ==
    IF arr = <<>> THEN <<>>
    ELSE IF Len(arr) = 1 THEN Quote(arr[1])
    ELSE Quote(arr[1]) \o <<",">> \o Elements(Tail(arr))

\* JSON.stringify(arr) for an array of strings
JSONstringify(arr) == <<"[">> \o Elements(arr) \o <<"]">>

SyntaxError == [ok |-> FALSE, value |-> <<>>, next |-> 0]

\* the string literal whose opening quote precedes position i of t
RECURSIVE ParseString(_, _, _)
ParseString(t, i, acc) ==
    IF i > Len(t) THEN SyntaxError
    ELSE IF t[i] = "\"" THEN [ok |-> TRUE, value |-> acc, next |-> i + 1]
    ELSE IF t[i] = "\\" THEN
        IF i + 1 > Len(t) THEN SyntaxError
        ELSE IF t[i + 1] \in {"\"", "\\"} THEN ParseString(t, i + 2, Append(acc, t[i + 1]))
        ELSE IF t[i + 1] = "n" THEN ParseString(t, i + 2, Append(acc, "\n"))
        ELSE IF t[i + 1] = "t" THEN ParseString(t, i + 2, Append(acc, "\t"))
        ELSE SyntaxError
    ELSE IF t[i] \in {"\n", "\t"} THEN SyntaxError
    ELSE ParseString(t, i + 1, Append(acc, t[i]))

\* the elements of an array from position i of t, up to the closing bracket
RECURSIVE ParseElements(_, _, _)
ParseElements(t, i, acc) ==
    IF i > Len(t) \/ t[i] # "\"" THEN SyntaxError
    ELSE LET e == ParseString(t, i + 1, <<>>) IN
         IF ~e.ok \/ e.next > Len(t) THEN SyntaxError
         ELSE IF t[e.next] = "," THEN ParseElements(t, e.next + 1, Append(acc, e.value))
         ELSE IF t[e.next] = "]" /\ e.next = Len(t)
              THEN [ok |-> TRUE, value |-> Append(acc, e.value), next |-> e.next + 1]
         ELSE SyntaxError

\* JSON.parse(text): ok with the array of strings text encodes, or a SyntaxError.
\* Only the texts JSON.stringify writes for string arrays are accepted.
JSONparse(t) ==
    IF Len(t) < 2 \/ t[1] # "[" THEN SyntaxError
    ELSE IF Len(t) = 2 /\ t[2] = "]" THEN [ok |-> TRUE, value |-> <<>>, next |-> 3]
    ELSE ParseElements(t, 2, <<>>)

-----------------------------------------------------------------------------
(* The history store *)

\* LocalStorage.getItem answers undefined when nothing is stored under the key
Undefined == [present |-> FALSE, text |-> <<>>]
Stored(text) == [present |-> TRUE, text |-> text]

\* a removal that misses the key
removeItemMissed(item) == item

\* LocalStorage.removeItem(HISTORY_KEY)
removeItem(item) == Undefined

\* LocalStorage.setItem(HISTORY_KEY, text)
setItem(item, text) == Stored(text)

\* getHistory: `stored ? JSON.parse(stored) : []`; ok = FALSE when JSON.parse throws
getHistory(stored) ==
    IF stored.present /\ Truthy(stored.text)
    THEN LET p == JSONparse(stored.text) IN [ok |-> p.ok, value |-> p.value]
    ELSE [ok |-> TRUE, value |-> <<>>]

\* a filter that removes nothing (the dedup step left out)
FilterNothing(h, p) == h

\* history.filter((h) => h !== prompt)
RECURSIVE Filter(_, _)
Filter(h, p) ==
    IF h = <<>> THEN <<>>
    ELSE IF Head(h) # p THEN <<Head(h)>> \o Filter(Tail(h), p)
    ELSE Filter(Tail(h), p)

\* a slice that keeps everything (the cap left out)
SliceKeepAll(s, n) == s

\* Array.prototype.slice(0, n)
Slice(s, n) == IF Len(s) <= n THEN s ELSE SubSeq(s, 1, n)

\* the request appended, not prepended
addToHistoryAppend(h, p) == Slice(Filter(h, p) \o <<p>>, MAX_HISTORY)

\* addToHistory's `updated`, from the history it read
addToHistory(h, p) == Slice(<<p>> \o Filter(h, p), MAX_HISTORY)

-----------------------------------------------------------------------------
(* gatherContext *)

\* what a query of the host may answer: a failure (a throw, a non-zero exit) or text
Fail == [ok |-> FALSE, out |-> <<>>]
Ok(text) == [ok |-> TRUE, out |-> text]

\* an optional string field of Context
Absent == [def |-> FALSE, val |-> <<>>]
Present(text) == [def |-> TRUE, val |-> text]

Terminal == <<"T", "e", "r", "m", "i", "n", "a", "l">>
iTerm2 == <<"i", "T", "e", "r", "m", "2">>
iTerm == <<"i", "T", "e", "r", "m">>
Safari == <<"S", "a", "f", "a", "r", "i">>

\* runAppleScript without its try/catch: a failed script still yields a string
runAppleScriptNoCatch(answer) == Present(Trim(answer.out))

\* runAppleScript: the trimmed output of osascript, undefined when execSync throws
runAppleScript(answer) == IF answer.ok THEN Present(Trim(answer.out)) ELSE Absent

\* `!dir` for string | undefined
Falsy(field) == ~field.def \/ ~Truthy(field.val)

\* gatherContext without the window-name fallback of the Terminal branch
gatherContextNoFallback(o) ==
    LET selectedText == IF o.selectedText.ok THEN Present(o.selectedText.out) ELSE Absent
        currentApp == runAppleScript(o.appScript)
        dir == runAppleScript(o.dirScript)
        q0 == <<"getSelectedText", "appScript">>
    IN  IF currentApp \in {Present(Terminal), Present(iTerm2), Present(iTerm)} THEN
            [context |-> [selectedText |-> selectedText, currentApp |-> currentApp,
                          currentDirectory |-> dir],
             queries |-> q0 \o <<"dirScript">>]
        ELSE
            [context |-> [selectedText |-> selectedText, currentApp |-> currentApp,
                          currentDirectory |-> Absent],
             queries |-> q0]

\* gatherContext against the host answers o: the Context it returns and the
\* queries it issued, in order
gatherContext(o) ==
    LET selectedText == IF o.selectedText.ok THEN Present(o.selectedText.out) ELSE Absent
        currentApp == runAppleScript(o.appScript)
        dir == runAppleScript(o.dirScript)
        q0 == <<"getSelectedText", "appScript">>
    IN  IF currentApp = Present(Terminal) THEN
            IF Falsy(dir)
            THEN [context |-> [selectedText |-> selectedText, currentApp |-> currentApp,
                               currentDirectory |-> runAppleScript(o.windowScript)],
                  queries |-> q0 \o <<"dirScript", "windowScript">>]
            ELSE [context |-> [selectedText |-> selectedText, currentApp |-> currentApp,
                               currentDirectory |-> dir],
                  queries |-> q0 \o <<"dirScript">>]
        ELSE IF currentApp = Present(iTerm2) \/ currentApp = Present(iTerm) THEN
            [context |-> [selectedText |-> selectedText, currentApp |-> currentApp,
                          currentDirectory |-> dir],
             queries |-> q0 \o <<"dirScript">>]
        ELSE
            [context |-> [selectedText |-> selectedText, currentApp |-> currentApp,
                          currentDirectory |-> Absent],
             queries |-> q0]

NoContext == [selectedText |-> Absent, currentApp |-> Absent, currentDirectory |-> Absent]

-----------------------------------------------------------------------------
(* buildPrompt *)

CurrentAppLabel == <<"C", "u", "r", "r", "e", "n", "t", " ", "a", "p", "p", ":", " ">>
CurrentDirectoryLabel ==
    <<"C", "u", "r", "r", "e", "n", "t", " ", "d", "i", "r", "e", "c", "t", "o", "r", "y", ":", " ">>
SelectedTextLabel ==
    <<"S", "e", "l", "e", "c", "t", "e", "d", " ", "t", "e", "x", "t", ":", "\n">>
ContextHeader == <<"C", "o", "n", "t", "e", "x", "t", ":", "\n">>
RequestLabel == <<"\n", "\n", "R", "e", "q", "u", "e", "s", "t", ":", " ">>

\* parts.join(sep)
RECURSIVE Join(_, _)
Join(parts, sep) ==
    IF Len(parts) = 0 THEN <<>>
    ELSE IF Len(parts) = 1 THEN parts[1]
    ELSE parts[1] \o sep \o Join(Tail(parts), sep)

\* `if (field) parts.push(label + field)`: an undefined or empty field adds nothing
Part(label, field) == IF Falsy(field) THEN <<>> ELSE <<label \o field.val>>

\* buildPrompt with the selected text pushed first
buildPromptSelectedFirst(userPrompt, c) ==
    LET parts == Part(SelectedTextLabel, c.selectedText)
                 \o Part(CurrentAppLabel, c.currentApp)
                 \o Part(CurrentDirectoryLabel, c.currentDirectory)
    IN  IF Len(parts) > 0
        THEN ContextHeader \o Join(parts, <<"\n">>) \o RequestLabel \o userPrompt
        ELSE userPrompt

\* buildPrompt: the user turn of the model call
buildPrompt(userPrompt, c) ==
    LET parts == Part(CurrentAppLabel, c.currentApp)
                 \o Part(CurrentDirectoryLabel, c.currentDirectory)
                 \o Part(SelectedTextLabel, c.selectedText)
    IN  IF Len(parts) > 0
        THEN ContextHeader \o Join(parts, <<"\n">>) \o RequestLabel \o userPrompt
        ELSE userPrompt

-----------------------------------------------------------------------------
(* The model's reply *)

Text(t) == [type |-> "text", text |-> t]
ToolUse == [type |-> "tool_use", text |-> <<>>]

\* the first block's text taken without trimming it
extractCommandNoTrim(content) ==
    IF content = <<>> THEN [ok |-> FALSE, command |-> <<>>]
    ELSE IF content[1].type = "text" THEN [ok |-> TRUE, command |-> content[1].text]
    ELSE [ok |-> TRUE, command |-> <<>>]

\* `message.content[0].type === "text" ? message.content[0].text.trim() : ""`;
\* reading content[0].type of an empty content array throws a TypeError
extractCommand(content) ==
    IF content = <<>> THEN [ok |-> FALSE, command |-> <<>>]
    ELSE IF content[1].type = "text" THEN [ok |-> TRUE, command |-> Trim(content[1].text)]
    ELSE [ok |-> TRUE, command |-> <<>>]

-----------------------------------------------------------------------------
(* Inputs *)

\* what the user may submit: two requests that differ only by case, and two
\* blank ones
Prompts == {<<"a">>, <<"A">>, <<" ", "\t">>, <<>>}

\* what messages.create may resolve to
Responses ==
    { <<>>,
      <<ToolUse>>,
      <<Text(<<>>)>>,
      <<Text(<<" ", "\n">>)>>,
      <<Text(<<" ", "l", "s", "\n">>)>>,
      <<ToolUse, Text(<<"l", "s">>)>> }

SelectedTextAnswers == {Fail, Ok(<<>>), Ok(<<"m">>)}
AppAnswers == {Fail, Ok(<<>>), Ok(Terminal \o <<"\n">>), Ok(iTerm2 \o <<"\n">>),
               Ok(iTerm \o <<"\n">>), Ok(Safari \o <<"\n">>)}
DirAnswers == {Fail, Ok(<<"\n">>), Ok(<<"/", "d", "\n">>)}
WindowAnswers == {Fail, Ok(<<"\n">>), Ok(<<"/", "w", "\n">>)}

\* every combination of answers of the host
OSStates == [selectedText : SelectedTextAnswers, appScript : AppAnswers,
             dirScript : DirAnswers, windowScript : WindowAnswers]

\* a host where Terminal is in front with a selection and a titled tab
OSTerminal == [selectedText |-> Ok(<<"m">>), appScript |-> Ok(Terminal \o <<"\n">>),
               dirScript |-> Ok(<<"/", "d", "\n">>), windowScript |-> Ok(<<"/", "w", "\n">>)]

-----------------------------------------------------------------------------
(* Toast and HUD titles *)

NoToast == "none"
ValidationToast == "Please enter a description"
EmptyToast == "No command generated"
ErrorToast == "Error"
PastedHUD == "Command pasted"

\* the `error` the catch block reports, named after the call that threw it
NoError == "none"
ModelError == "messages.create"
TypeError == "TypeError: message.content[0] is undefined"
ParseError == "SyntaxError: JSON.parse"
CloseError == "closeMainWindow"
PasteError == "Clipboard.paste"
HudError == "showHUD"

-----------------------------------------------------------------------------
(* Initial state: the component as constructed (useState initial values), *)
(* the mount effect's getHistory() issued, nothing persisted               *)

InitComponent ==
    /\ history = <<>>
    /\ isLoading = FALSE
    /\ pcLoad = "getItem"
    /\ pcClear = "idle"
    /\ pc = [r \in Runs |-> "idle"]
    /\ prompt = [r \in Runs |-> <<>>]
    /\ command = [r \in Runs |-> <<>>]
    /\ updated = [r \in Runs |-> <<>>]
    /\ toast = [r \in Runs |-> NoToast]
    /\ error = [r \in Runs |-> NoError]
    /\ wrote = [r \in Runs |-> FALSE]
    /\ probe = [r \in Runs |-> <<>>]
    /\ context = [r \in Runs |-> NoContext]
    /\ fullPrompt = [r \in Runs |-> <<>>]

Init ==
    /\ InitComponent
    /\ store = Undefined
    /\ os = OSTerminal

-------------------------------------------------------------------------------------------------------------------------------------------------
(* generateCommand, one action per suspension point *)

\* the catch block: the failure toast "Error" with the error's message is
\* shown and awaited; the locals of the try block are out of scope
Catch(r, e) ==
    /\ pc' = [pc EXCEPT ![r] = "toastError"]
    /\ toast' = [toast EXCEPT ![r] = ErrorToast]
    /\ error' = [error EXCEPT ![r] = e]
    /\ prompt' = [prompt EXCEPT ![r] = <<>>]
    /\ command' = [command EXCEPT ![r] = <<>>]
    /\ updated' = [updated EXCEPT ![r] = <<>>]
    /\ probe' = [probe EXCEPT ![r] = <<>>]
    /\ context' = [context EXCEPT ![r] = NoContext]
    /\ fullPrompt' = [fullPrompt EXCEPT ![r] = <<>>]
    /\ UNCHANGED <<store, history, isLoading, pcLoad, pcClear, wrote, os>>

\* generateCommand calling the model without awaiting gatherContext
GenerateSkipContext(r, p) ==
    /\ pc[r] = "idle"
    /\ prompt' = [prompt EXCEPT ![r] = p]
    /\ IF ~Truthy(Trim(p))
       THEN /\ toast' = [toast EXCEPT ![r] = ValidationToast]
            /\ pc' = [pc EXCEPT ![r] = "toastValidation"]
            /\ UNCHANGED <<isLoading, fullPrompt>>
       ELSE /\ isLoading' = TRUE
            /\ pc' = [pc EXCEPT ![r] = "messages.create"]
            /\ fullPrompt' = [fullPrompt EXCEPT ![r] = p]
            /\ UNCHANGED toast
    /\ UNCHANGED <<store, history, pcLoad, pcClear, command, updated, error, wrote,
                   os, probe, context>>

\* generateCommand(p) is invoked: the validation branch shows its toast and
\* awaits it; otherwise setIsLoading(true) and gatherContext runs up to its
\* `await getSelectedText()`
Generate(r, p) ==
    /\ pc[r] = "idle"
    /\ prompt' = [prompt EXCEPT ![r] = p]
    /\ IF ~Truthy(Trim(p))
       THEN /\ toast' = [toast EXCEPT ![r] = ValidationToast]
            /\ pc' = [pc EXCEPT ![r] = "toastValidation"]
            /\ UNCHANGED isLoading
       ELSE /\ isLoading' = TRUE
            /\ pc' = [pc EXCEPT ![r] = "getSelectedText"]
            /\ UNCHANGED toast
    /\ UNCHANGED <<store, history, pcLoad, pcClear, command, updated, error, wrote,
                   os, fullPrompt, probe, context>>

\* the "Please enter a description" toast settles: return
ValidationReturn(r) ==
    /\ pc[r] = "toastValidation"
    /\ pc' = [pc EXCEPT ![r] = "idle"]
    /\ toast' = [toast EXCEPT ![r] = NoToast]
    /\ prompt' = [prompt EXCEPT ![r] = <<>>]
    /\ UNCHANGED <<store, history, isLoading, pcLoad, pcClear, command, updated,
                   error, wrote, os, fullPrompt, probe, context>>

\* getSelectedText settles; the AppleScript queries run synchronously
\* (execSync), gatherContext returns, buildPrompt makes the user turn and
\* messages.create is issued with it
GatherContext(r) ==
    /\ pc[r] = "getSelectedText"
    /\ LET g == gatherContext(os) IN
        /\ context' = [context EXCEPT ![r] = g.context]
        /\ probe' = [probe EXCEPT ![r] = g.queries]
        /\ fullPrompt' = [fullPrompt EXCEPT ![r] = buildPrompt(prompt[r], g.context)]
    /\ pc' = [pc EXCEPT ![r] = "messages.create"]
    /\ UNCHANGED <<store, history, isLoading, pcLoad, pcClear, prompt, command,
                   updated, toast, error, wrote, os>>

\* messages.create resolves with `content`
ModelReturn(r, content) ==
    /\ pc[r] = "messages.create"
    /\ LET x == extractCommand(content) IN
        IF ~x.ok THEN Catch(r, TypeError)
        ELSE IF ~Truthy(x.command) THEN
            /\ toast' = [toast EXCEPT ![r] = EmptyToast]
            /\ pc' = [pc EXCEPT ![r] = "toastEmpty"]
            /\ prompt' = [prompt EXCEPT ![r] = <<>>]
            /\ probe' = [probe EXCEPT ![r] = <<>>]
            /\ context' = [context EXCEPT ![r] = NoContext]
            /\ fullPrompt' = [fullPrompt EXCEPT ![r] = <<>>]
            /\ UNCHANGED <<store, history, isLoading, pcLoad, pcClear, command,
                           updated, error, wrote, os>>
        ELSE
            /\ command' = [command EXCEPT ![r] = x.command]
            /\ pc' = [pc EXCEPT ![r] = "getItem"]
            /\ probe' = [probe EXCEPT ![r] = <<>>]
            /\ context' = [context EXCEPT ![r] = NoContext]
            /\ fullPrompt' = [fullPrompt EXCEPT ![r] = <<>>]
            /\ UNCHANGED <<store, history, isLoading, pcLoad, pcClear, prompt,
                           updated, toast, error, wrote, os>>

\* messages.create rejects (authentication, network, rate limit)
ModelFail(r) ==
    /\ pc[r] = "messages.create"
    /\ Catch(r, ModelError)

\* the "No command generated" toast settles: setIsLoading(false); return
ToastEmptyReturn(r) ==
    /\ pc[r] = "toastEmpty"
    /\ isLoading' = FALSE
    /\ pc' = [pc EXCEPT ![r] = "idle"]
    /\ toast' = [toast EXCEPT ![r] = NoToast]
    /\ UNCHANGED <<store, history, pcLoad, pcClear, prompt, command, updated, error,
                   wrote, os, fullPrompt, probe, context>>

\* the "Error" toast of the catch block settles: setIsLoading(false)
ToastErrorReturn(r) ==
    /\ pc[r] = "toastError"
    /\ isLoading' = FALSE
    /\ pc' = [pc EXCEPT ![r] = "idle"]
    /\ toast' = [toast EXCEPT ![r] = NoToast]
    /\ error' = [error EXCEPT ![r] = NoError]
    /\ wrote' = [wrote EXCEPT ![r] = FALSE]
    /\ UNCHANGED <<store, history, pcLoad, pcClear, prompt, command, updated, os, fullPrompt,
                   probe, context>>

\* addToHistory: LocalStorage.getItem settles; getHistory parses (a throw goes
\* to the catch block), `updated` is computed and LocalStorage.setItem issued
HistoryRead(r) ==
    /\ pc[r] = "getItem"
    /\ LET h == getHistory(store) IN
        IF ~h.ok THEN Catch(r, ParseError)
        ELSE
            /\ updated' = [updated EXCEPT ![r] = addToHistory(h.value, prompt[r])]
            /\ pc' = [pc EXCEPT ![r] = "setItem"]
            /\ UNCHANGED <<store, history, isLoading, pcLoad, pcClear, prompt,
                           command, toast, error, wrote, os, fullPrompt, probe, context>>

\* LocalStorage.setItem takes effect
HistoryWrite(r) ==
    /\ pc[r] = "setItem"
    /\ store' = setItem(store, JSONstringify(updated[r]))
    /\ pc' = [pc EXCEPT ![r] = "recorded"]
    /\ wrote' = [wrote EXCEPT ![r] = TRUE]
    /\ UNCHANGED <<history, isLoading, pcLoad, pcClear, prompt, command, updated,
                   toast, error, os, fullPrompt, probe, context>>

\* addToHistory returns: setHistory(updatedHistory); closeMainWindow is issued
Recorded(r) ==
    /\ pc[r] = "recorded"
    /\ history' = updated[r]
    /\ pc' = [pc EXCEPT ![r] = "closeMainWindow"]
    /\ prompt' = [prompt EXCEPT ![r] = <<>>]
    /\ updated' = [updated EXCEPT ![r] = <<>>]
    /\ UNCHANGED <<store, isLoading, pcLoad, pcClear, command, toast, error, wrote,
                   os, fullPrompt, probe, context>>

\* closeMainWindow settles; on success Clipboard.paste(command) is issued
CloseReturn(r, ok) ==
    /\ pc[r] = "closeMainWindow"
    /\ IF ok
       THEN /\ pc' = [pc EXCEPT ![r] = "paste"]
            /\ UNCHANGED <<store, history, isLoading, pcLoad, pcClear, prompt,
                           command, updated, toast, error, wrote, os, fullPrompt, probe, context>>
       ELSE Catch(r, CloseError)

\* Clipboard.paste settles; on success showHUD("Command pasted") is issued
PasteReturn(r, ok) ==
    /\ pc[r] = "paste"
    /\ IF ok
       THEN /\ pc' = [pc EXCEPT ![r] = "showHUD"]
            /\ toast' = [toast EXCEPT ![r] = PastedHUD]
            /\ command' = [command EXCEPT ![r] = <<>>]
            /\ UNCHANGED <<store, history, isLoading, pcLoad, pcClear, prompt,
                           updated, error, wrote, os, fullPrompt, probe, context>>
       ELSE Catch(r, PasteError)

\* showHUD settles; on success generateCommand returns
HudReturn(r, ok) ==
    /\ pc[r] = "showHUD"
    /\ IF ok
       THEN /\ pc' = [pc EXCEPT ![r] = "idle"]
            /\ toast' = [toast EXCEPT ![r] = NoToast]
            /\ wrote' = [wrote EXCEPT ![r] = FALSE]
            /\ UNCHANGED <<store, history, isLoading, pcLoad, pcClear, prompt,
                           command, updated, error, os, fullPrompt, probe, context>>
       ELSE Catch(r, HudError)

-----------------------------------------------------------------------------
(* The mount effect, "Clear History", and reopening the command *)

\* useEffect: getHistory().then(setHistory); a throw of JSON.parse leaves the
\* promise rejected and the state as constructed
LoadReturn ==
    /\ pcLoad = "getItem"
    /\ LET h == getHistory(store) IN
        IF h.ok
        THEN /\ history' = h.value
             /\ pcLoad' = "done"
        ELSE /\ pcLoad' = "rejected"
             /\ UNCHANGED history
    /\ UNCHANGED <<store, isLoading, pcClear, pc, prompt, command, updated, toast,
                   error, wrote, os, fullPrompt, probe, context>>

\* "Clear History" on a history item (one is shown only when history is not
\* empty): LocalStorage.removeItem takes effect
ClearHistory ==
    /\ pcClear = "idle"
    /\ Len(history) > 0
    /\ store' = removeItem(store)
    /\ pcClear' = "removeItem"
    /\ UNCHANGED <<history, isLoading, pcLoad, pc, prompt, command, updated, toast,
                   error, wrote, os, fullPrompt, probe, context>>

\* removeItem settles: setHistory([]) and the "History cleared" toast
ClearReturn ==
    /\ pcClear = "removeItem"
    /\ history' = <<>>
    /\ pcClear' = "idle"
    /\ UNCHANGED <<store, isLoading, pcLoad, pc, prompt, command, updated, toast,
                   error, wrote, os, fullPrompt, probe, context>>

\* the command is closed and opened again with nothing in flight: the
\* component is constructed anew, LocalStorage persists
Reopen ==
    /\ pcLoad # "getItem"
    /\ pcClear = "idle"
    /\ \A r \in Runs : pc[r] = "idle"
    /\ history' = <<>>
    /\ isLoading' = FALSE
    /\ pcLoad' = "getItem"
    /\ UNCHANGED <<store, pcClear, pc, prompt, command, updated, toast, error, wrote,
                   os, fullPrompt, probe, context>>

---------

RunStep(r) ==
    \/ \E p \in Prompts : Generate(r, p)
    \/ ValidationReturn(r)
    \/ GatherContext(r)
    \/ \E content \in Responses : ModelReturn(r, content)
    \/ ModelFail(r)
    \/ ToastEmptyReturn(r)
    \/ ToastErrorReturn(r)
    \/ HistoryRead(r)
    \/ HistoryWrite(r)
    \/ Recorded(r)
    \/ \E ok \in BOOLEAN : CloseReturn(r, ok)
    \/ \E ok \in BOOLEAN : PasteReturn(r, ok)
    \/ \E ok \in BOOLEAN : HudReturn(r, ok)

Next ==
    \/ \E r \in Runs : RunStep(r)
    \/ LoadReturn
    \/ ClearHistory
    \/ ClearReturn
    \/ Reopen

Spec == Init /\ [][Next]_vars

-----------------------------------------------------------------------------
(* The same component over a store that something else has left unreadable: *)
(* a text JSON.parse rejects, or the empty string                           *)

Truncated == Stored(<<"[", "\"", "a">>)
EmptyText == Stored(<<>>)

InitCorrupt ==
    /\ InitComponent
    /\ store \in {Undefined, Truncated, EmptyText}
    /\ os = OSTerminal

SpecCorrupt == InitCorrupt /\ [][Next]_vars

-----------------------------------------------------------------------------
(* One run at a time against every combination of answers of the host *)

InitContext ==
    /\ InitComponent
    /\ store = Undefined
    /\ os \in OSStates

NextContext ==
    \/ RunStep(1)
    \/ LoadReturn
    \/ ClearHistory
    \/ ClearReturn
    \/ Reopen

SpecContext == InitContext /\ [][NextContext]_vars

-----------------------------------------------------------------------------
(* The history store on its own: addToHistory and "Clear History" each run *)
(* to completion, fed requests that reach and pass MAX_HISTORY             *)

Letters == <<"b", "\"", "\\", " ", "B">>

\* the i-th fresh request, i in 1..25: three characters, some of them quotes,
\* backslashes, blanks or capitals
Fresh(i) == <<"r", Letters[((i - 1) \div 5) + 1], Letters[((i - 1) % 5) + 1]>>

\* requests submitted again and again
Hot == {<<"a">>, <<"A">>}

Range(s) == LET t == s IN {t[i] : i \in 1..Len(t)}

\* the requests fed to a store holding h: the hot ones, and the fresh one after
\* the latest fresh one h holds
Requests(h) ==
    Hot \cup {Fresh(j) : j \in {i \in 1..MaxFresh :
                                  /\ \A k \in i..MaxFresh : Fresh(k) \notin Range(h)
                                  /\ i > 1 => Fresh(i - 1) \in Range(h)}}

\* `addToHistory(p)` is called, as run 1, with nothing else in flight
Record(p) ==
    /\ pc[1] = "idle"
    /\ pc' = [pc EXCEPT ![1] = "getItem"]
    /\ prompt' = [prompt EXCEPT ![1] = p]
    /\ UNCHANGED <<store, history, isLoading, pcLoad, pcClear, command, updated,
                   toast, error, wrote, os, fullPrompt, probe, context>>

\* addToHistory returns to a caller that shows the list: setHistory(updated)
RecordReturn ==
    /\ pc[1] = "recorded"
    /\ history' = updated[1]
    /\ pc' = [pc EXCEPT ![1] = "idle"]
    /\ prompt' = [prompt EXCEPT ![1] = <<>>]
    /\ updated' = [updated EXCEPT ![1] = <<>>]
    /\ wrote' = [wrote EXCEPT ![1] = FALSE]
    /\ UNCHANGED <<store, isLoading, pcLoad, pcClear, command, toast, error, os, fullPrompt, probe,
                   context>>

\* the "Clear History" handler run to completion: removeItem, setHistory([])
Clear ==
    /\ pc[1] = "idle"
    /\ store' = removeItem(store)
    /\ history' = <<>>
    /\ UNCHANGED <<isLoading, pcLoad, pcClear, pc, prompt, command, updated, toast, error, wrote,
                   os, fullPrompt, probe, context>>

NextHistory ==
    \/ \E p \in Requests(getHistory(store).value) : Record(p)
    \/ HistoryRead(1)
    \/ HistoryWrite(1)
    \/ RecordReturn
    \/ Clear

SpecHistory == Init /\ [][NextHistory]_vars

-----------------------------------------------------------------------------
(* Claims about the history store, under SpecHistory *)

\* the persisted history, as getHistory reads it
Persisted == getHistory(store).value

Occurrences(h, p) == LET k == h IN {i \in 1..Len(k) : k[i] = p}

\* C1: after any sequence of record and clear operations from an empty store,
\* the persisted history parses, holds no entry twice and has at most 20 entries.
C1_NoDuplicatesAtMost20 ==
    LET g == getHistory(store)
        h == g.value
    IN  /\ g.ok
        /\ Len(h) <= 20
        /\ \A i, j \in 1..Len(h) : i # j => h[i] # h[j]

\* C1 witness: the store is full, the latest fresh request is in it and the
\* first one has been evicted.
C1_Witness ==
    LET h == Persisted
    IN  /\ Len(h) = 20
        /\ Fresh(21) \in Range(h)
        /\ Fresh(1) \notin Range(h)
        /\ Hot \subseteq Range(h)

\* C2: right after record(r), the list addToHistory computed, and then the
\* persisted history, holds r exactly once (exact string equality), in first
\* position.
C2_RecordedOnceAndFirst ==
    /\ pc[1] = "setItem" =>
        /\ Len(updated[1]) >= 1
        /\ Occurrences(updated[1], prompt[1]) = {1}
    /\ pc[1] = "recorded" =>
        LET h == Persisted
        IN  /\ Len(h) >= 1
            /\ Occurrences(h, prompt[1]) = {1}

\* C2 witness: "a" is recorded again while the store holds it further down,
\* next to "A".
C2_Witness ==
    /\ pc[1] = "setItem"
    /\ prompt[1] = <<"a">>
    /\ updated[1][1] = <<"a">>
    /\ LET h == Persisted
       IN  /\ Len(h) >= 3
           /\ h[1] # <<"a">>
           /\ <<"a">> \in Range(h)
           /\ <<"A">> \in Range(h)

\* the entries of h other than p, in order
Others(h, p) == SelectSeq(h, LAMBDA x : x # p)

\* r, then the entries of h other than r in order, cut to the first 20
Expected(h, p) ==
    LET all == <<p>> \o Others(h, p)
    IN  [i \in 1..(IF Len(all) < 20 THEN Len(all) ELSE 20) |-> all[i]]

\* C3: record(r) on a stored history h computes r followed by the other entries
\* of h in order, cut to 20, and persists exactly that list; with h full and r
\* new only the last entry of h is dropped; with r in h nothing is evicted and
\* the other entries keep their order.
C3_RecordResult ==
    /\ pc[1] = "setItem" =>
        LET h == Persisted
            p == prompt[1]
            u == updated[1]
        IN  /\ u = Expected(h, p)
            /\ (Len(h) = 20 /\ p \notin Range(h)) =>
                /\ Len(u) = 20
                /\ u[1] = p
                /\ \A i \in 1..19 : u[i + 1] = h[i]
            /\ p \in Range(h) =>
                /\ Len(u) = Len(h)
                /\ Range(u) = Range(h)
                /\ Others(u, p) = Others(h, p)
    /\ pc[1] = "recorded" => Persisted = updated[1]

\* C3 witness: a full store of fresh requests has just taken the 21st: it
\* holds the 21st down to the 2nd.
C3_Witness ==
    /\ pc[1] = "recorded"
    /\ prompt[1] = Fresh(21)
    /\ Persisted = [i \in 1..20 |-> Fresh(22 - i)]

-----------------------------------------------------------------------------
(* Claims about the generateCommand pipeline *)

\* empty, or made of blanks only
IsBlank(s) == \A i \in 1..Len(s) : s[i] \in {" ", "\t", "\n"}

BeforeRecordErrors == {ModelError, TypeError, ParseError}
DeliveryErrors == {CloseError, PasteError, HudError}

\* C4, as claimed: a run that reports an error (validation toast, "No command
\* generated", or the catch block's "Error" toast) has not written the
\* persisted history.
C4_ErrorRunsLeaveHistory ==
    \A r \in Runs :
        pc[r] \in {"toastValidation", "toastEmpty", "toastError"} => ~wrote[r]

\* C4, amended: the persisted history changes only by "Clear History" or by the
\* setItem of a run whose generated command is not blank; a run that ends in
\* the validation toast, in "No command generated", or in an "Error" thrown by
\* the model call, the extraction or the history read has written nothing; a
\* run whose "Error" was thrown by closeMainWindow, Clipboard.paste or showHUD
\* has already recorded its request.
C4_WrittenOnlyOnSuccessPath ==
    /\ [](\A r \in Runs :
            /\ pc[r] \in {"getItem", "setItem", "recorded"} => ~IsBlank(command[r])
            /\ pc[r] \in {"toastValidation", "toastEmpty"} => ~wrote[r]
            /\ (pc[r] = "toastError" /\ error[r] \in BeforeRecordErrors) => ~wrote[r]
            /\ (pc[r] = "toastError" /\ error[r] \in DeliveryErrors) => wrote[r])
    /\ [][store' # store =>
            \/ pcClear = "idle" /\ pcClear' = "removeItem"
            \/ \E r \in Runs : pc[r] = "setItem" /\ pc'[r] = "recorded" /\ wrote'[r]]_vars

\* C4 witness: one run reports a model error over a non-empty history it has
\* not written, while another reports a paste failure after recording.
C4_Witness ==
    \E r1, r2 \in Runs :
        /\ pc[r1] = "toastError" /\ error[r1] = ModelError /\ ~wrote[r1]
        /\ pc[r2] = "toastError" /\ error[r2] = PasteError /\ wrote[r2]
        /\ Len(Persisted) >= 1

\* C5, as claimed: once a run has reached its outcome and returned, the loading
\* flag is cleared: with no run in flight, isLoading is false.
C5_NotLoadingWhenIdle ==
    (\A r \in Runs : pc[r] = "idle") => ~isLoading

\* C6: a run invoked with an empty or blank request shows the validation
\* toast and returns; neither step changes isLoading, the persisted or the
\* displayed history, and no context query or model call is issued.
C6_BlankRequestRejected ==
    [][\A r \in Runs :
        /\ (pc[r] = "idle" /\ pc'[r] # "idle" /\ IsBlank(prompt'[r])) =>
            /\ pc'[r] = "toastValidation"
            /\ toast'[r] = ValidationToast
            /\ UNCHANGED <<store, history, isLoading, probe, context, wrote>>
        /\ (pc[r] = "toastValidation" /\ pc'[r] # "toastValidation") =>
            /\ pc'[r] = "idle"
            /\ UNCHANGED <<store, history, isLoading, probe, context, wrote>>]_vars

\* C6 witness: a blank request is being rejected over a recorded history, the
\* loading flag still clear.
C6_Witness ==
    \E r \in Runs :
        /\ pc[r] = "toastValidation"
        /\ prompt[r] = <<" ", "\t">>
        /\ ~isLoading
        /\ Len(history) >= 1
        /\ Persisted = history

\* a reply with no usable text: no block, a first block that is not text, or
\* a first block whose text is blank
NoUsableText(content) ==
    \/ content = <<>>
    \/ content[1].type # "text"
    \/ IsBlank(content[1].text)

\* C7, as claimed: when messages.create resolves with no usable text, the run
\* shows "No command generated" (not the catch block's "Error") and the
\* persisted history is left alone.
C7_EmptyGenerationOutcome ==
    [][\A r \in Runs : \A content \in Responses :
        (NoUsableText(content) /\ ModelReturn(r, content)) =>
            /\ pc'[r] = "toastEmpty"
            /\ toast'[r] = EmptyToast
            /\ store' = store]_vars

\* C8: the removeItem of "Clear History" leaves a store that getHistory reads
\* as the empty list, whatever it held, and the handler then shows an empty
\* history.
C8_ClearThenListEmpty ==
    [][/\ (pcClear = "idle" /\ pcClear' = "removeItem") =>
            /\ getHistory(store').ok
            /\ getHistory(store').value = <<>>
       /\ (pcClear = "removeItem" /\ pcClear' = "idle") => history' = <<>>]_vars

\* C8 witness: removeItem has just emptied a store that held two requests,
\* which the list still shows.
C8_Witness ==
    /\ pcClear = "removeItem"
    /\ store = Undefined
    /\ Len(history) = 2

\* C9, as claimed: getHistory never throws, at mount or in a run.
C9_ListNeverFails ==
    /\ pcLoad # "rejected"
    /\ \A r \in Runs : error[r] # ParseError

\* what gatherContext must return for the answers o: a field is present only
\* with the answer of a query that succeeded
ContextMatches(o, c) ==
    /\ c.selectedText = IF o.selectedText.ok THEN Present(o.selectedText.out) ELSE Absent
    /\ ~o.appScript.ok => c.currentApp = Absent /\ c.currentDirectory = Absent
    /\ o.appScript.ok => c.currentApp.def
    /\ (~o.dirScript.ok /\ ~o.windowScript.ok) => c.currentDirectory = Absent
    /\ c.currentDirectory.def =>
        /\ c.currentApp.val \in {Terminal, iTerm2, iTerm}
        /\ \/ o.dirScript.ok /\ c.currentDirectory.val \o <<"\n">> = o.dirScript.out
           \/ /\ c.currentApp.val = Terminal
              /\ o.windowScript.ok
              /\ c.currentDirectory.val \o <<"\n">> = o.windowScript.out

\* C10: whatever the selected-text, application and directory queries answer,
\* gatherContext returns a Context whose fields are absent where the query
\* failed, and the run goes on to the model call.
C10_ContextNeverFails ==
    /\ [](\A r \in Runs : pc[r] = "messages.create" => ContextMatches(os, context[r]))
    /\ [][\A r \in Runs :
            (pc[r] = "getSelectedText" /\ pc'[r] # "getSelectedText") =>
                pc'[r] = "messages.create"]_vars

\* C10 witness: every query has failed and the run awaits the model with an
\* empty Context.
C10_Witness ==
    /\ pc[1] = "messages.create"
    /\ ~os.selectedText.ok /\ ~os.appScript.ok /\ ~os.dirScript.ok /\ ~os.windowScript.ok
    /\ context[1] = NoContext

-----------------------------------------------------------------------------
(* Claims about buildPrompt, under SpecContext *)

\* one line of the "Context:" block, with its line end; nothing for a field
\* that is absent or empty
FieldLine(label, field) ==
    IF field.def /\ field.val # <<>> THEN label \o field.val \o <<"\n">> ELSE <<>>

\* "Context:", the lines of the non-empty fields in the order app, directory,
\* selected text, a blank line, and "Request: <request>"
ContextBlock(request, c) ==
    ContextHeader
    \o FieldLine(CurrentAppLabel, c.currentApp)
    \o FieldLine(CurrentDirectoryLabel, c.currentDirectory)
    \o FieldLine(SelectedTextLabel, c.selectedText)
    \o <<"\n">> \o <<"R", "e", "q", "u", "e", "s", "t", ":", " ">> \o request

NoField(c) ==
    \A f \in {c.currentApp, c.currentDirectory, c.selectedText} : ~f.def \/ f.val = <<>>

\* C11, as claimed: the user turn sent to the model is the request unchanged
\* when all three Context fields are absent, and the "Context:" block
\* otherwise.
C11_BlockUnlessAllAbsent ==
    \A r \in Runs : pc[r] = "messages.create" =>
        fullPrompt[r] = IF context[r] = NoContext THEN prompt[r]
                        ELSE ContextBlock(prompt[r], context[r])

\* C11, amended: the user turn sent to the model is the request unchanged when
\* every Context field is absent or empty, and otherwise the "Context:" block
\* listing the non-empty fields, each once, in the order app, directory,
\* selected text, then a blank line and "Request: <request>"; it is a function
\* of the request and the Context alone.
C11_BlockOfNonEmptyFields ==
    \A r \in Runs : pc[r] = "messages.create" =>
        /\ fullPrompt[r] = IF NoField(context[r]) THEN prompt[r]
                           ELSE ContextBlock(prompt[r], context[r])
        /\ fullPrompt[r] = buildPrompt(prompt[r], context[r])

\* C11 witness: Terminal in front with a directory and a selection: the block
\* lists the three fields in order.
C11_Witness ==
    /\ pc[1] = "messages.create"
    /\ prompt[1] = <<"a">>
    /\ fullPrompt[1] =
         ContextHeader \o CurrentAppLabel \o Terminal \o <<"\n">>
         \o CurrentDirectoryLabel \o <<"/", "d", "\n">>
         \o SelectedTextLabel \o <<"m">> \o RequestLabel \o <<"a">>

-----------------------------------------------------------------------------
(* Claims about concurrent runs, under Spec *)

\* where a run is between setIsLoading(true) and the return of addToHistory
LoadingStages == {"getSelectedText", "messages.create", "getItem", "setItem", "recorded"}

\* C12, as claimed: at most one run of generateCommand is loading at any time
\* (a second invocation while one is loading starts no context collection and
\* no model call).
C12_SingleFlight ==
    Cardinality({r \in Runs : pc[r] \in LoadingStages}) <= 1

\* C13, as claimed: between the read and the write of addToHistory the
\* persisted history does not change: the list a run is about to write is the
\* record of its request on the history persisted at that moment, so no other
\* run's entry is lost.
C13_RecordAtomic ==
    \A r \in Runs : pc[r] = "setItem" =>
        LET h == Persisted IN updated[r] = Expected(h, prompt[r])

-----------------------------------------------------------------------------
(* Claims about the order of the stages of one run, under Spec *)

\* how far along generateCommand a suspension point is
StageRank(stage) ==
    CASE stage = "idle" -> 0
      [] stage \in {"toastValidation", "getSelectedText"} -> 1
      [] stage = "messages.create" -> 2
      [] stage \in {"toastEmpty", "getItem"} -> 3
      [] stage = "setItem" -> 4
      [] stage = "recorded" -> 5
      [] stage = "closeMainWindow" -> 6
      [] stage = "paste" -> 7
      [] stage = "showHUD" -> 8
      [] stage = "toastError" -> 9

\* the stages from which generateCommand returns
LastStages == {"toastValidation", "toastEmpty", "toastError", "showHUD"}

\* C14: every step of a run moves it forward through the stages or returns
\* from a last stage, so that no stage, the model call included, is entered
\* twice in a run; the model call is issued only when gatherContext has
\* returned its Context; addToHistory is called only when the model has answered
\* with a non-blank command; Clipboard.paste is issued only after this run's
\* setItem has taken effect; and the validation toast, "No command generated"
\* and the "Error" of a failed model call are reached from stages before
\* the paste.
C14_StageOrder ==
    [][\A r \in Runs : pc'[r] # pc[r] =>
        /\ \/ StageRank(pc'[r]) > StageRank(pc[r])
           \/ pc'[r] = "idle" /\ pc[r] \in LastStages
        /\ pc'[r] = "messages.create" =>
            /\ pc[r] = "getSelectedText"
            /\ Len(probe'[r]) >= 2
            /\ ContextMatches(os, context'[r])
        /\ pc'[r] = "getItem" =>
            /\ pc[r] = "messages.create"
            /\ ~IsBlank(command'[r])
            /\ ~wrote[r]
        /\ pc'[r] = "paste" =>
            /\ pc[r] = "closeMainWindow"
            /\ wrote[r]
        /\ pc'[r] = "toastValidation" => pc[r] = "idle"
        /\ pc'[r] = "toastEmpty" => pc[r] = "messages.create"
        /\ (pc'[r] = "toastError" /\ error'[r] = ModelError) =>
            pc[r] = "messages.create"]_vars

\* C14 witness: a run has recorded its request and is pasting the command the
\* model gave, while the other, started later, still awaits the model.
C14_Witness ==
    \E r1, r2 \in Runs :
        /\ pc[r1] = "paste" /\ wrote[r1] /\ command[r1] = <<"l", "s">>
        /\ pc[r2] = "messages.create" /\ ~wrote[r2]
        /\ Len(Persisted) = 1

-----------------------------------------------------------------------------
(* Claims about the extraction of the command, under Spec *)

\* the text-typed blocks of a reply, in order
TextBlocks(content) == SelectSeq(content, LAMBDA b : b.type = "text")

\* the command as claimed: the trimmed text of the first text-typed block,
\* empty when there is none
FirstTextTrimmed(content) ==
    LET t == TextBlocks(content)
    IN  IF t = <<>> THEN <<>> ELSE Trim(t[1].text)

\* C15, as claimed: when messages.create resolves with at least one block, the
\* run takes as its command the trimmed text of the first text-typed block,
\* and treats the generation as empty only when there is no such block or its
\* text is blank.
C15_FirstTextBlockTrimmed ==
    [][\A r \in Runs : \A content \in Responses :
        (content # <<>> /\ ModelReturn(r, content)) =>
            LET t == FirstTextTrimmed(content)
            IN  IF t = <<>> THEN pc'[r] = "toastEmpty"
                ELSE pc'[r] = "getItem" /\ command'[r] = t]_vars

-----------------------------------------------------------------------------
(* Claims about the queries of gatherContext, under SpecContext *)

TerminalLike == {Terminal, iTerm2, iTerm}

AllQueries == <<"getSelectedText", "appScript", "dirScript", "windowScript">>

\* the directory query failed or answered nothing but blanks
PrimaryEmpty == ~os.dirScript.ok \/ IsBlank(os.dirScript.out)

\* the queries q were issued in the fixed order, the selected text and the
\* application always, the directory only for a terminal-like application c
\* names, with no directory in c otherwise
QueryOrder(q, c) ==
    /\ Len(q) \in 2..4
    /\ \A i \in 1..Len(q) : q[i] = AllQueries[i]
    /\ ("dirScript" \in Range(q)) <=> (c.currentApp.def /\ c.currentApp.val \in TerminalLike)
    /\ "dirScript" \notin Range(q) => c.currentDirectory = Absent

\* C16, as claimed: the queries run in the order selected text, application,
\* directory, the directory only for a terminal-like application, and for
\* every terminal-like application the fallback query is issued exactly when
\* the directory query fails or answers empty.
C16_FallbackForEveryTerminal ==
    \A r \in Runs : pc[r] = "messages.create" =>
        /\ QueryOrder(probe[r], context[r])
        /\ ("windowScript" \in Range(probe[r])) <=>
            /\ context[r].currentApp.def
            /\ context[r].currentApp.val \in TerminalLike
            /\ PrimaryEmpty

\* C16, amended: the queries run in the order selected text, application,
\* directory, the directory only when the application is Terminal, iTerm2 or
\* iTerm (no directory otherwise); the window-name fallback is issued exactly
\* when the application is Terminal and its directory query fails or answers
\* empty; iTerm2 and iTerm have no fallback.
C16_FallbackForTerminalOnly ==
    \A r \in Runs : pc[r] = "messages.create" =>
        /\ QueryOrder(probe[r], context[r])
        /\ ("windowScript" \in Range(probe[r])) <=>
            /\ context[r].currentApp = Present(Terminal)
            /\ PrimaryEmpty

\* C16 witness: Terminal is in front, its tab has no custom title, and the
\* window name was asked and gave the directory.
C16_Witness ==
    /\ pc[1] = "messages.create"
    /\ os.dirScript = Ok(<<"\n">>)
    /\ probe[1] = AllQueries
    /\ context[1].currentApp = Present(Terminal)
    /\ context[1].currentDirectory = Present(<<"/", "w">>)

-----------------------------------------------------------------------------
(* Claims about the displayed history and "Clear History", under Spec *)

\* no run, no "Clear History" and no initial load is in flight
Quiescent ==
    /\ pcLoad = "done"
    /\ pcClear = "idle"
    /\ \A r \in Runs : pc[r] = "idle"

\* C17, as claimed: whenever nothing is in flight, the history the list shows
\* is the persisted history (an absent key reads as empty).
C17_DisplayedIsPersisted ==
    Quiescent => history = Persisted

\* C18, as claimed, with one run at a time (SpecContext), where only that
\* run's setItem and "Clear History" change the store: the setItem of a run
\* puts back no entry that "Clear History" removed after the run read the
\* history, that is, it adds to the persisted history nothing but the run's
\* own request.
C18_ClearNotUndone ==
    [][\A r \in Runs : (pc[r] = "setItem" /\ pc'[r] = "recorded") =>
        LET before == Persisted
            after == getHistory(store').value
        IN  Range(after) \subseteq Range(before) \cup {prompt[r]}]_vars

====
